---- MODULE Spec2Model ----
(***************************************************************************)
(* RFP-to-BOM matching core of RFPAzure: bucket feature extraction and     *)
(* filtering (utils/bucket_filters.py), the semantic matcher boundary      *)
(* (services/azure_openai_service.py) and classification and batch         *)
(* orchestration (services/rfp_processor.py).                              *)
(*                                                                         *)
(* Python values are tagged records: a str that the code parses is         *)
(* [k |-> "str", v |-> <<characters>>], None is [k |-> "none"], a JSON     *)
(* number is [k |-> "num", t |-> tenths].  A float is [nan, t] where t     *)
(* counts tenths (79.9 is t = 799).  Product codes and free text that the  *)
(* code only compares are TLA+ strings.  A call that can raise returns     *)
(* [ok |-> TRUE, val |-> v] or [ok |-> FALSE, exc |-> type, msg |-> text]. *)
(***************************************************************************)
EXTENDS Integers, Sequences, FiniteSets, TLC

VARIABLES
    use_mock,        \* AzureOpenAIService.use_mock
    stock_data,      \* StockMasterService.stock_data, the catalog
    rfp_items,       \* argument of process_rfp_items
    i,               \* number of items the loop of process_rfp_items has taken
    results,         \* the list process_rfp_items builds
    pc,              \* position of the run
    rfp_item,        \* the line item (or text) an operation is applied to
    filtered_stock,  \* output of filter_stock_by_buckets
    ai_result,       \* SingleSpec: the judgment match_rfp_item returned
    enhanced,        \* SingleSpec: what _enhance_ai_result returned
    features,        \* a feature map: output of extract_bucket_features
    result_limit,    \* max_results of filter_stock_by_buckets
    summary_data,    \* BomSpec: output of _generate_bom_summary
    matcher_calls,   \* line numbers of the calls of match_rfp_item, in order
    catalogs_read,   \* what get_stock_data() returned, call by call
    session_id,      \* SessionSpec: the session of the last request
    session_store    \* SessionSpec: per session, the stock master it stored

vars == <<use_mock, stock_data, rfp_items, i, results, pc,
          rfp_item, filtered_stock, ai_result, enhanced,
          features, result_limit, summary_data,
          matcher_calls, catalogs_read, session_id, session_store>>

-----------------------------------------------------------------------------
(* Python values *)

None == [k |-> "none"]
Str(chars) == [k |-> "str", v |-> chars]
Num(tenths) == [k |-> "num", t |-> tenths]

Ok(v) == [ok |-> TRUE, val |-> v]
Raise(e, m) == [ok |-> FALSE, exc |-> e, msg |-> m]

\* dict.get(key, default)
DictGet(d, key, default) == IF key \in DOMAIN d THEN d[key] ELSE default

\* Truth value of a str, None or number (bool(x))
Truthy(x) ==
    CASE x.k = "none" -> FALSE
      [] x.k = "str"  -> Len(x.v) > 0
      [] x.k = "num"  -> x.t # 0

-----------------------------------------------------------------------------
(* Floats, in tenths, with NaN *)

F(tenths) == [nan |-> FALSE, t |-> tenths]
NaN == [nan |-> TRUE, t |-> 0]
FromInt(n) == F(n * 10)

\* IEEE comparisons: every ordered comparison with NaN is false
FLt(a, b) == ~a.nan /\ ~b.nan /\ a.t < b.t
FLe(a, b) == ~a.nan /\ ~b.nan /\ a.t <= b.t
FGe(a, b) == ~a.nan /\ ~b.nan /\ a.t >= b.t

Digits == {"0", "1", "2", "3", "4", "5", "6", "7", "8", "9"}

DigitVal(c) ==
    CASE c = "0" -> 0 [] c = "1" -> 1 [] c = "2" -> 2 [] c = "3" -> 3
      [] c = "4" -> 4 [] c = "5" -> 5 [] c = "6" -> 6 [] c = "7" -> 7
      [] c = "8" -> 8 [] c = "9" -> 9

RECURSIVE DigitsVal(_)
DigitsVal(s) ==
    IF s = <<>> THEN 0
    ELSE DigitsVal(SubSeq(s, 1, Len(s) - 1)) * 10 + DigitVal(s[Len(s)])

AllDigits(s) == \A n \in 1..Len(s) : s[n] \in Digits

RECURSIVE StripLeft(_)
StripLeft(s) == IF s # <<>> /\ s[1] = " " THEN StripLeft(Tail(s)) ELSE s

RECURSIVE StripRight(_)
StripRight(s) ==
    IF s # <<>> /\ s[Len(s)] = " " THEN StripRight(SubSeq(s, 1, Len(s) - 1)) ELSE s

Strip(s) == StripRight(StripLeft(s))

\* Position of the first "." of s, or 0
DotAt(s) ==
    IF \E n \in 1..Len(s) : s[n] = "."
    THEN CHOOSE n \in 1..Len(s) : s[n] = "." /\ \A m \in 1..(n - 1) : s[m] # "."
    ELSE 0

\* the digits before and after the first "."
IntPart(body) == IF DotAt(body) = 0 THEN body ELSE SubSeq(body, 1, DotAt(body) - 1)
FracPart(body) == IF DotAt(body) = 0 THEN <<>> ELSE SubSeq(body, DotAt(body) + 1, Len(body))

Signed(neg, mag) == IF neg THEN 0 - mag ELSE mag

ParseParts(neg, ip, fp) ==
    IF AllDigits(ip) /\ AllDigits(fp) /\ Len(ip) + Len(fp) > 0
    THEN Ok(F(Signed(neg, DigitsVal(ip) * 10 + (IF fp = <<>> THEN 0 ELSE DigitVal(fp[1])))))
    ELSE Raise("ValueError", "could not convert string to float")

ParseBody(neg, body) ==
    IF body \in {<<"n", "a", "n">>, <<"N", "a", "N">>, <<"N", "A", "N">>}
    THEN Ok(NaN)
    ELSE ParseParts(neg, IntPart(body), FracPart(body))

HasSign(s) == s # <<>> /\ s[1] \in {"-", "+"}
IsNegative(s) == s # <<>> /\ s[1] = "-"
Unsigned(s) == IF HasSign(s) THEN Tail(s) ELSE s

ParseStripped(s) == ParseBody(IsNegative(s), Unsigned(s))

\* float(<str>) on strings of digits, ".", sign, blanks and letters without an
\* exponent, "inf" or "_": blanks stripped, optional sign, then "nan" or
\* digits[.digits] or .digits.  Fractions are read to one digit, which is
\* exact for the strings the model draws.  Anything else is a ValueError.
ParseFloat(chars) == ParseStripped(Strip(chars))

\* float(x)
PyFloat(x) ==
    CASE x.k = "num"  -> Ok(F(x.t))
      [] x.k = "str"  -> ParseFloat(x.v)
      [] x.k = "none" -> Raise("TypeError", "float() argument must be a string or a real number")

-----------------------------------------------------------------------------
(* Feature Extractor and Bucket Filter: utils/bucket_filters.py            *)
(*                                                                         *)
(* A text is Str(<<words>>): its blank-separated words in order.  The      *)
(* words are those of Vocabulary; on them no pattern matches across a      *)
(* blank, so a text's matches are the union of its words' matches.         *)

Vocabulary ==
    {"PIPE", "pipe", "FLANGE", "150#", "300#", "WNRF", "A105", "X52", "SMLS",
     "SCH40", "6\"", "4\"", "API", "PSL2", "5L", "GASKET",
     "P1", "P2", "F1", "F2", "F3", "P3", "X42", "6\"X4\""}

\* str.upper() on a word of Vocabulary
Upper(w) == IF w = "pipe" THEN "PIPE" ELSE w

Buckets == 1..11

\* bucket_definitions[b]['priority']
Priority(b) == IF b <= 6 THEN "high" ELSE IF b <= 8 THEN "medium" ELSE "low"

\* re.findall of the patterns of bucket b on one upper-cased word: the
\* captured group.  A class rating keeps its digits and drops the "#".  A size
\* such as 6" needs a word character right after the quote ("\b), which a
\* word followed by a blank or by the end of the text never has: of 6"X4" the
\* 6 is a size, the 4 is neither a size nor (bucket 10) a reduced size.
WordMatches(b, w) ==
    CASE b = 1  -> IF w = "150#" THEN {"150"} ELSE IF w = "300#" THEN {"300"} ELSE {}
      [] b = 2  -> {w} \cap {"PIPE", "ELBOW", "CAP", "FLANGE", "FLG", "TEE", "REDUCER",
                             "REDG", "RED", "BEND", "SWAGE", "COUPLING", "CLPG", "BOSS",
                             "UNION", "NIPPLE", "PLUG", "CROSS", "INSERT", "PIPET",
                             "WELDOLET", "SOCKOLET", "ELBOLET", "THREADOLET"}
      [] b = 3  -> {w} \cap {"RF", "FF", "WN", "WNRF", "WNFF", "WELDNECK", "BLIND", "BL",
                             "BLRF", "BLFF", "SO", "SORF", "SOFF", "SLIPON", "LJ", "LJRF",
                             "LJFF", "LAPJOINT"}
      [] b = 4  -> {w} \cap {"NPT", "THREADED", "TH", "SCRD", "SCREWED", "SW", "SOCKETWELD",
                             "BW", "BUTTWELD", "SMLS", "SEAMLESS", "WELDED", "WE"}
      [] b = 5  -> {w} \cap {"LR", "SR", "90LR", "90SR", "90", "90DEG", "90D", "45LR",
                             "45SR", "45", "45DEG", "45D", "180LR", "180SR", "180",
                             "180DEG", "180D"}
      [] b = 6  -> {w} \cap {"EQ", "EQUAL", "ECC", "ECCENTRIC", "CON", "CONC", "CONCENTRIC",
                             "RED", "REDUCING", "REDG", "FULL", "HALF", "HEX", "BULL",
                             "ROUND"}
      [] b = 7  -> {w} \cap {"CS", "CARBONSTEEL", "SS", "STAINLESSSTEEL", "X52", "X42",
                             "A53", "A106B", "A106GRB", "A333GR6", "304", "SS304", "SS304L",
                             "316", "SS316", "SS316L", "TP304", "TP304L", "TP316", "TP316L",
                             "234WPB", "A234WPB", "A234", "234", "A105", "A105N", "105",
                             "F304L", "304L", "F316L", "316L"}
      [] b = 8  -> {w} \cap {"S10", "S20", "S30", "S40", "S60", "S80", "S100", "S120",
                             "S140", "S160", "SSTD", "SXS", "SXXS", "SCH10", "SCH20",
                             "SCH30", "SCH40", "SCH60", "SCH80", "SCH100", "SCH120",
                             "SCH140", "SCH160", "SCHSTD", "SCHXS", "SCHXXS", "STD",
                             "XS", "XXS"}
      [] b = 9  -> IF w = "6\"X4\"" THEN {"6"} ELSE {}
      [] b = 10 -> {}
      [] b = 11 -> {w} \cap {"API", "PSL1", "PSL2", "PSL3"}

\* matches of bucket b in a text (the list(set(matches)) of the code)
TextMatches(b, words) ==
    UNION {WordMatches(b, Upper(words[n])) : n \in 1..Len(words)}

\* the feature map holding every bucket, matched or not
extract_bucket_features_all_buckets(text) ==
    IF text.k # "str"
    THEN Raise("AttributeError", "object has no attribute 'upper'")
    ELSE Ok([b \in Buckets |-> TextMatches(b, text.v)])

\* text.upper() raises AttributeError when text is no str
extract_bucket_features(text) ==
    IF text.k # "str"
    THEN Raise("AttributeError", "object has no attribute 'upper'")
    ELSE Ok([b \in {c \in Buckets : TextMatches(c, text.v) # {}} |-> TextMatches(b, text.v)])

Min(a, b) == IF a < b THEN a ELSE b

\* seq[:n]; a negative n counts from the end
Take(seq, n) ==
    IF n >= 0 THEN SubSeq(seq, 1, Min(n, Len(seq))) ELSE SubSeq(seq, 1, Len(seq) + n)

\* Rationals <<numerator, denominator>> in lowest terms, for match_score
RECURSIVE Gcd(_, _)
Gcd(a, b) == IF b = 0 THEN a ELSE Gcd(b, a % b)

Rat(n, d) == IF n = 0 THEN <<0, 1>> ELSE <<n \div Gcd(n, d), d \div Gcd(n, d)>>
RatAdd(x, y) == Rat(x[1] * y[2] + y[1] * x[2], x[2] * y[2])
RatLt(x, y) == x[1] * y[2] < y[1] * x[2]

Max(a, b) == IF a > b THEN a ELSE b

\* bucket_weights[priority]
bucket_weights(priority) ==
    CASE priority = "high" -> 10 [] priority = "medium" -> 5 [] priority = "low" -> 2

\* the overlap ratio taken over the smaller of the two sets
OverlapScore_min_ratio(weight, rfp_set, stock_set) ==
    IF rfp_set \cap stock_set # {}
    THEN Rat(weight * Cardinality(rfp_set \cap stock_set),
             Min(Cardinality(rfp_set), Cardinality(stock_set)))
    ELSE <<0, 1>>

\* weight * overlap / max(len(rfp_set), len(stock_set)), or 0 without overlap
OverlapScore(weight, rfp_set, stock_set) ==
    IF rfp_set \cap stock_set # {}
    THEN Rat(weight * Cardinality(rfp_set \cap stock_set),
             Max(Cardinality(rfp_set), Cardinality(stock_set)))
    ELSE <<0, 1>>

\* what bucket b adds to total_score
BucketScore(b, rfp_features, stock_features) ==
    IF b \in DOMAIN rfp_features /\ b \in DOMAIN stock_features
    THEN OverlapScore(bucket_weights(Priority(b)), rfp_features[b], stock_features[b])
    ELSE <<0, 1>>

RECURSIVE ScoreUpTo(_, _, _)
ScoreUpTo(b, rfp_features, stock_features) ==
    IF b = 0 THEN <<0, 1>>
    ELSE RatAdd(ScoreUpTo(b - 1, rfp_features, stock_features),
                BucketScore(b, rfp_features, stock_features))

_calculate_match_score(rfp_features, stock_features) ==
    ScoreUpTo(11, rfp_features, stock_features)

\* the buckets both maps hold with a common feature
HitBuckets(rfp_features, stock_features) ==
    {b \in Buckets : /\ b \in DOMAIN rfp_features
                     /\ b \in DOMAIN stock_features
                     /\ rfp_features[b] \cap stock_features[b] # {}}

\* the matched buckets, by bucket number; the feature lists are sets
_get_matched_buckets(rfp_features, stock_features) ==
    [b \in HitBuckets(rfp_features, stock_features) |->
        [priority         |-> Priority(b),
         matched_features |-> rfp_features[b] \cap stock_features[b],
         rfp_features     |-> rfp_features[b],
         stock_features   |-> stock_features[b]]]

\* ' '.join([str(product_code), str(description), str(material), str(size),
\*           str(specification)])
StockText(stock_item) ==
    Str(<<DictGet(stock_item, "product_code", "")>>
        \o DictGet(stock_item, "description", <<>>)
        \o DictGet(stock_item, "material", <<>>)
        \o DictGet(stock_item, "size", <<>>)
        \o DictGet(stock_item, "specification", <<>>))

\* {**stock_item, 'match_score': score, 'matched_buckets': ...}
ScoredWith(stock_item, rfp_features, stock_features) ==
    [product_code     |-> stock_item.product_code,
     description      |-> stock_item.description,
     material         |-> stock_item.material,
     size             |-> stock_item.size,
     specification    |-> stock_item.specification,
     on_hand_quantity |-> stock_item.on_hand_quantity,
     match_score      |-> _calculate_match_score(rfp_features, stock_features),
     matched_buckets  |-> _get_matched_buckets(rfp_features, stock_features)]

Scored(stock_item, rfp_features) ==
    ScoredWith(stock_item, rfp_features, extract_bucket_features(StockText(stock_item)).val)

\* the filter keeping every scored item
KeepPositive_all(item) == <<item>>

\* if score > 0: scored_items.append(...)
KeepPositive(item) == IF RatLt(<<0, 1>>, item.match_score) THEN <<item>> ELSE <<>>

\* the loop over stock_data: the scored copies with score > 0, in catalog order
RECURSIVE ScoredItems(_, _)
ScoredItems(stock, rfp_features) ==
    IF stock = <<>> THEN <<>>
    ELSE KeepPositive(Scored(Head(stock), rfp_features))
         \o ScoredItems(Tail(stock), rfp_features)

\* the sort without reverse=True
RECURSIVE InsertDesc_ascending(_, _)
InsertDesc_ascending(sorted, item) ==
    IF sorted = <<>> THEN <<item>>
    ELSE IF RatLt(item.match_score, Head(sorted).match_score)
         THEN <<item>> \o sorted
         ELSE <<Head(sorted)>> \o InsertDesc_ascending(Tail(sorted), item)

\* a descending sort that puts an item before the items of equal score
RECURSIVE InsertDesc_before_equals(_, _)
InsertDesc_before_equals(sorted, item) ==
    IF sorted = <<>> THEN <<item>>
    ELSE IF ~RatLt(item.match_score, Head(sorted).match_score)
         THEN <<item>> \o sorted
         ELSE <<Head(sorted)>> \o InsertDesc_before_equals(Tail(sorted), item)

\* list.sort(key=match_score, reverse=True): stable, descending
RECURSIVE InsertDesc(_, _)
InsertDesc(sorted, item) ==
    IF sorted = <<>> THEN <<item>>
    ELSE IF RatLt(Head(sorted).match_score, item.match_score)
         THEN <<item>> \o sorted
         ELSE <<Head(sorted)>> \o InsertDesc(Tail(sorted), item)

RECURSIVE SortDesc(_)
SortDesc(seq) ==
    IF seq = <<>> THEN <<>>
    ELSE InsertDesc(SortDesc(SubSeq(seq, 1, Len(seq) - 1)), seq[Len(seq)])

filter_stock_by_buckets(rfp_features, stock, max_results) ==
    Take(SortDesc(ScoredItems(stock, rfp_features)), max_results)

\* the loop writing the score into the catalog's own dict
StockItemAfter_scored_in_place(stock_item, rfp_features) == Scored(stock_item, rfp_features)

\* a catalog entry after its iteration of the loop: the score goes into a new
\* dict, {**stock_item, ...}, and the entry itself is only read
StockItemAfter(stock_item, rfp_features) == stock_item

\* stock_data after filter_stock_by_buckets: scored_items is a new list, and it
\* is scored_items that is sorted and sliced
RECURSIVE StockAfterFilter(_, _)
StockAfterFilter(stock, rfp_features) ==
    IF stock = <<>> THEN <<>>
    ELSE <<StockItemAfter(Head(stock), rfp_features)>>
         \o StockAfterFilter(Tail(stock), rfp_features)

-----------------------------------------------------------------------------
(* Semantic matcher: services/azure_openai_service.py *)

\* str(n) for n >= 0
RECURSIVE IntToChars(_)
IntToChars(n) ==
    LET d == CHOOSE c \in Digits : DigitVal(c) = n % 10
    IN  IF n < 10 THEN <<d>> ELSE IntToChars(n \div 10) \o <<d>>

ParseIntBody(neg, body) ==
    IF body # <<>> /\ AllDigits(body)
    THEN Ok(Signed(neg, DigitsVal(body)))
    ELSE Raise("ValueError", "invalid literal for int() with base 10")

ParseIntStripped(s) == ParseIntBody(IsNegative(s), Unsigned(s))

\* int(<str>): blanks stripped, optional sign, digits; anything else raises
ParseInt(chars) == ParseIntStripped(Strip(chars))

\* int(x or 0)
IntOrZero(x) == IF ~Truthy(x) THEN Ok(0) ELSE IF x.k = "num" THEN Ok(x.t \div 10) ELSE ParseInt(x.v)

\* the mock's keywords and materials found in one lower-cased word, and the
\* sizes its size pattern finds there
WordKeywords(w) ==
    CASE Upper(w) = "PIPE"   -> {"pipe"}
      [] Upper(w) = "FLANGE" -> {"flange"}
      [] Upper(w) = "GASKET" -> {"gasket"}
      [] OTHER               -> {}

WordMaterials(w) ==
    CASE w = "A105" -> {"a105"} [] w = "X52" -> {"x52"} [] OTHER -> {}

WordSizes(w) ==
    IF w \in {"6\"", "4\""} THEN <<w>>
    ELSE IF w = "6\"X4\"" THEN <<"6\"", "4\"">> ELSE <<>>

KeywordsIn(words) == UNION {WordKeywords(words[n]) : n \in 1..Len(words)}
MaterialsIn(words) == UNION {WordMaterials(words[n]) : n \in 1..Len(words)}

RECURSIVE SizesIn(_)
SizesIn(words) == IF words = <<>> THEN <<>> ELSE WordSizes(Head(words)) \o SizesIn(Tail(words))

\* for rfp_size in rfp_sizes: if rfp_size in desc_sizes
SizeHits(rfp_sizes, desc_sizes) ==
    Cardinality({n \in 1..Len(rfp_sizes) :
                    \E m \in 1..Len(desc_sizes) : desc_sizes[m] = rfp_sizes[n]})

\* the score the mock gives one entry
MockScoreOf(rfp_words, description) ==
    20 * Cardinality(KeywordsIn(rfp_words) \cap KeywordsIn(description))
    + 30 * SizeHits(SizesIn(rfp_words), SizesIn(description))
    + 25 * Cardinality(MaterialsIn(rfp_words) \cap MaterialsIn(description))

MockScore(rfp_words, entry) == MockScoreOf(rfp_words, DictGet(entry, "description", <<>>))

\* if score > best_score: best_score, best_match = score, entry
Better(before, score, n) == IF score > before[1] THEN <<score, n>> ELSE before

\* the loop keeping the first entry of the strictly greatest positive score:
\* <<best_score, index of best_match or 0>>
RECURSIVE MockBest(_, _, _)
MockBest(rfp_words, entries, n) ==
    IF n = 0 THEN <<0, 0>>
    ELSE Better(MockBest(rfp_words, entries, n - 1), MockScore(rfp_words, entries[n]), n)

EmptyJudgment(reason) ==
    [matched_product_code |-> "",
     matched_description  |-> <<>>,
     match_score          |-> Str(<<"0">>),
     on_hand_quantity     |-> 0,
     match_reason         |-> reason]

\* the judgment for best_match; int(...) of its quantity may raise
MockMatched(best_match, best_score, qty) ==
    IF qty.ok
    THEN Ok([matched_product_code |-> DictGet(best_match, "product_code", ""),
             matched_description  |-> DictGet(best_match, "description", <<>>),
             match_score          |-> Str(IntToChars(Min(best_score, 95))),
             on_hand_quantity     |-> qty.val,
             match_reason         |-> <<"Mock AI matching based on keyword analysis">>])
    ELSE qty

MockJudgment(stock_entries, best) ==
    IF best[2] # 0 /\ best[1] > 40
    THEN MockMatched(stock_entries[best[2]], best[1],
                     IntOrZero(DictGet(stock_entries[best[2]], "on_hand_quantity", Num(0))))
    ELSE Ok(EmptyJudgment(<<"No suitable match found using mock AI matching">>))

_mock_match_rfp_item(rfp_line, stock_entries) ==
    IF stock_entries = <<>>
    THEN Ok(EmptyJudgment(<<"No stock entries provided for matching">>))
    ELSE MockJudgment(stock_entries, MockBest(rfp_line.v, stock_entries, Len(stock_entries)))

required_fields == {"matched_product_code", "matched_description", "match_score", "match_reason"}

\* response: what the chat completion and json.loads gave: [raised |-> TRUE,
\* msg] for a failed call or unparsable content, else [raised |-> FALSE, doc]
match_rfp_item(mock, rfp_line, stock_entries, response) ==
    IF mock THEN _mock_match_rfp_item(rfp_line, stock_entries)
    ELSE IF response.raised
    THEN Ok(EmptyJudgment(<<"Error in AI matching: ", response.msg>>))
    ELSE IF ~(required_fields \subseteq DOMAIN response.doc)
    THEN Ok(EmptyJudgment(<<"Error in AI matching: ", "Invalid response format from Azure OpenAI">>))
    ELSE Ok(response.doc)

-----------------------------------------------------------------------------
(* Match Classifier: services/rfp_processor.py *)

high_confidence_threshold == 80
medium_confidence_threshold == 60
low_confidence_threshold == 40

\* the lookup taking the last candidate with the code
FirstWithCode_last(seq, code) ==
    IF \E n \in 1..Len(seq) : DictGet(seq[n], "product_code", None) = code
    THEN seq[CHOOSE n \in 1..Len(seq) :
                /\ DictGet(seq[n], "product_code", None) = code
                /\ \A m \in (n + 1)..Len(seq) : DictGet(seq[m], "product_code", None) # code]
    ELSE None

\* First item of a list satisfying the generator's test, or the default:
\* next((item for item in seq if item.get('product_code') == code), None)
FirstWithCode(seq, code) ==
    IF \E n \in 1..Len(seq) : DictGet(seq[n], "product_code", None) = code
    THEN seq[CHOOSE n \in 1..Len(seq) :
                /\ DictGet(seq[n], "product_code", None) = code
                /\ \A m \in 1..(n - 1) : DictGet(seq[m], "product_code", None) # code]
    ELSE None

\* float(qty_str) if qty_str else 0
QtyFloat(qty_str) == IF Truthy(qty_str) THEN PyFloat(qty_str) ELSE Ok(FromInt(0))

\* stock_item.get('on_hand_quantity', '0'), coerced
QuantityOf(stock_item) == QtyFloat(DictGet(stock_item, "on_hand_quantity", Str(<<"0">>)))

\* the availability check; a ValueError or TypeError of float() is passed
\* over: "Assume available if quantity is unclear"
Availability(quantity) ==
    IF quantity.ok /\ FLe(quantity.val, FromInt(0)) THEN "unavailable" ELSE "matched"

\* _determine_match_status with the availability check ahead of the score check
determine_match_status_stock_first(match_score, stock_item) ==
    IF stock_item = None THEN "unmatched"
    ELSE IF QuantityOf(stock_item).ok /\ FLe(QuantityOf(stock_item).val, FromInt(0))
         THEN "unavailable"
    ELSE IF FLt(match_score, FromInt(low_confidence_threshold)) THEN "unmatched"
    ELSE "matched"

\* _determine_match_status without the score check
determine_match_status_no_threshold(match_score, stock_item) ==
    IF stock_item = None THEN "unmatched"
    ELSE Availability(QuantityOf(stock_item))

\* _determine_match_status with the medium threshold in place of the low one
determine_match_status_medium_threshold(match_score, stock_item) ==
    IF FLt(match_score, FromInt(medium_confidence_threshold)) THEN "unmatched"
    ELSE IF stock_item = None THEN "unmatched"
    ELSE Availability(QuantityOf(stock_item))

_determine_match_status(match_score, stock_item) ==
    IF FLt(match_score, FromInt(low_confidence_threshold)) THEN "unmatched"
    ELSE IF stock_item = None THEN "unmatched"
    ELSE Availability(QuantityOf(stock_item))

\* _get_confidence_level with exclusive boundaries
get_confidence_level_exclusive(match_score) ==
    IF FLt(FromInt(high_confidence_threshold), match_score) THEN "high"
    ELSE IF FLt(FromInt(medium_confidence_threshold), match_score) THEN "medium"
    ELSE IF FLt(FromInt(low_confidence_threshold), match_score) THEN "low"
    ELSE "very_low"

_get_confidence_level(match_score) ==
    IF FGe(match_score, FromInt(high_confidence_threshold)) THEN "high"
    ELSE IF FGe(match_score, FromInt(medium_confidence_threshold)) THEN "medium"
    ELSE IF FGe(match_score, FromInt(low_confidence_threshold)) THEN "low"
    ELSE "very_low"

AltOf(item) ==
    [product_code |-> DictGet(item, "product_code", ""),
     description  |-> DictGet(item, "description", <<>>),
     bucket_score |-> DictGet(item, "match_score", 0)]

RECURSIVE MapAlt(_)
MapAlt(seq) == IF seq = <<>> THEN <<>> ELSE <<AltOf(Head(seq))>> \o MapAlt(Tail(seq))

\* the alternatives without the test on the product code
alternative_matches_unfiltered(filtered, product_code) ==
    MapAlt(Take(filtered, 3))

\* [... for item in filtered_stock[:3] if item.get('product_code') != product_code]
alternative_matches(filtered, product_code) ==
    LET Other(item) == DictGet(item, "product_code", None) # product_code
    IN  MapAlt(SelectSeq(Take(filtered, 3), Other))

\* the lookup of the judgment's code among the candidates
MatchedStockItem(filtered, product_code) ==
    IF product_code # "" THEN FirstWithCode(filtered, product_code) ELSE None

OrZero(quantity) == IF quantity.ok THEN quantity.val ELSE FromInt(0)

\* on_hand_quantity of the result
OnHandQuantity(matched_stock_item) ==
    IF matched_stock_item # None THEN OrZero(QuantityOf(matched_stock_item)) ELSE FromInt(0)

\* the dict the try block returns
EnhancedResult(ai, filtered, rfp_features, match_score, product_code, matched_stock_item) ==
    [status |-> _determine_match_status(match_score, matched_stock_item),
     matched_product_code |-> product_code,
     matched_description |-> DictGet(ai, "matched_description", <<>>),
     match_score |-> match_score,
     on_hand_quantity |-> OnHandQuantity(matched_stock_item),
     match_reason |-> DictGet(ai, "match_reason", <<>>),
     bucket_features |-> rfp_features,
     filtered_candidates |-> Len(filtered),
     confidence_level |-> _get_confidence_level(match_score),
     matched_stock_details |-> matched_stock_item,
     alternative_matches |-> alternative_matches(filtered, product_code)]

\* the except block without the exception's message in match_reason
EnhanceError_no_message(filtered, rfp_features, msg) ==
    [status |-> "error",
     matched_product_code |-> "",
     matched_description |-> <<>>,
     match_score |-> FromInt(0),
     on_hand_quantity |-> FromInt(0),
     match_reason |-> <<"Error processing AI result">>,
     bucket_features |-> rfp_features,
     filtered_candidates |-> Len(filtered)]

\* the dict the except block returns
EnhanceError(filtered, rfp_features, msg) ==
    [status |-> "error",
     matched_product_code |-> "",
     matched_description |-> <<>>,
     match_score |-> FromInt(0),
     on_hand_quantity |-> FromInt(0),
     match_reason |-> <<"Error processing AI result: ", msg>>,
     bucket_features |-> rfp_features,
     filtered_candidates |-> Len(filtered)]

\* score: the outcome of float(ai_result.get('match_score', 0))
EnhanceWith(ai, filtered, rfp_features, score, product_code) ==
    IF score.ok
    THEN EnhancedResult(ai, filtered, rfp_features, score.val, product_code,
                        MatchedStockItem(filtered, product_code))
    ELSE EnhanceError(filtered, rfp_features, score.msg)

_enhance_ai_result(ai, filtered, rfp_features) ==
    EnhanceWith(ai, filtered, rfp_features,
                PyFloat(DictGet(ai, "match_score", Num(0))),
                DictGet(ai, "matched_product_code", ""))

\* the early return of process_single_rfp_item
NoCandidates(rfp_features) ==
    [status |-> "unmatched",
     matched_product_code |-> "",
     matched_description |-> <<>>,
     match_score |-> FromInt(0),
     on_hand_quantity |-> FromInt(0),
     match_reason |-> <<"No matching products found in stock master using bucket filtering">>,
     bucket_features |-> rfp_features,
     filtered_candidates |-> 0]

\* what a call of process_single_rfp_item did besides returning or raising:
\* the candidates it filtered, whether it called the matcher, the judgment
Trace(filtered, called, ai) == [filtered |-> filtered, called |-> called, ai |-> ai]

\* Step 4, or the matcher's exception passing through
SingleJudged(rfp_features, filtered, ai) ==
    IF ai.ok
    THEN Ok(_enhance_ai_result(ai.val, filtered, rfp_features)) @@ Trace(filtered, TRUE, ai.val)
    ELSE ai @@ Trace(filtered, TRUE, None)

\* process_single_rfp_item without the early return
SingleFiltered_no_early_return(mock, item, response, rfp_features, filtered) ==
    SingleJudged(rfp_features, filtered, match_rfp_item(mock, item, filtered, response))

\* the early return, or Step 3
SingleFiltered(mock, item, response, rfp_features, filtered) ==
    IF filtered = <<>>
    THEN Ok(NoCandidates(rfp_features)) @@ Trace(filtered, FALSE, None)
    ELSE SingleJudged(rfp_features, filtered, match_rfp_item(mock, item, filtered, response))

\* Step 2, or the extractor's exception passing through
SingleExtracted(mock, stock, item, response, rfp_features) ==
    IF rfp_features.ok
    THEN SingleFiltered(mock, item, response, rfp_features.val,
                        filter_stock_by_buckets(rfp_features.val, stock, 20))
    ELSE rfp_features @@ Trace(<<>>, FALSE, None)

\* [ok, val] or [ok, exc, msg], with the Trace fields
process_single_rfp_item(mock, stock, item, response) ==
    SingleExtracted(mock, stock, item, response, extract_bucket_features(item))

\* the service's stock_data after process_single_rfp_item(item)
StockAfterItem(stock, rfp_features) ==
    IF rfp_features.ok THEN StockAfterFilter(stock, rfp_features.val) ELSE stock

\* stock_data = self.stock_master_service.get_stock_data(): read once per item,
\* after the features were extracted
ReadsAfter(reads, stock, rfp_features) ==
    IF rfp_features.ok THEN Append(reads, stock) ELSE reads

\* a loop that calls the matcher again after it raised
CallsAfter_retry(calls, line_number, run) ==
    IF run.called
    THEN IF run.ok THEN Append(calls, line_number)
         ELSE Append(Append(calls, line_number), line_number)
    ELSE calls

\* the matcher invocations after the iteration of one line item: the single
\* call of Step 3, and no second attempt in the except branch
CallsAfter(calls, line_number, run) ==
    IF run.called THEN Append(calls, line_number) ELSE calls

\* rfp_item[:50] works on a str and raises TypeError on None or a number
Sliceable(item) == item.k = "str"

\* the except branch of the loop of process_rfp_items
ErrorResult(line_number, item, msg) ==
    [line_number |-> line_number,
     original_rfp_item |-> item,
     status |-> "error",
     error_message |-> msg,
     matched_product_code |-> "",
     matched_description |-> <<>>,
     match_score |-> FromInt(0),
     match_reason |-> <<"Processing error: ", msg>>]

\* Numbered with the loop index i in place of i + 1
Numbered_from_zero(line_number, item, result) ==
    [line_number |-> line_number - 1, original_rfp_item |-> item] @@ result

\* result['line_number'] = i + 1; result['original_rfp_item'] = rfp_item
Numbered(line_number, item, result) ==
    [line_number |-> line_number, original_rfp_item |-> item] @@ result

\* what one iteration appends, given the outcome of process_single_rfp_item
Appended(line_number, item, outcome) ==
    IF outcome.ok
    THEN Numbered(line_number, item, outcome.val)
    ELSE ErrorResult(line_number, item, outcome.msg)

\* the body of the try of one iteration, and its except
ItemResult(mock, stock, line_number, item, response) ==
    Appended(line_number, item, process_single_rfp_item(mock, stock, item, response))

-----------------------------------------------------------------------------
(* Batch Summary: RFPProcessor._generate_bom_summary *)

\* len([item for item in bom_data if item.get(key) == value])
CountWhere(bom_data, key, value) ==
    Cardinality({n \in 1..Len(bom_data) : DictGet(bom_data[n], key, "") = value})

\* n / d rounded to the nearest integer, a tie to the even one
RoundHalfEven(n, d) ==
    IF 2 * (n % d) < d THEN n \div d
    ELSE IF 2 * (n % d) > d THEN (n \div d) + 1
    ELSE (n \div d) + ((n \div d) % 2)

\* f'{x:.1f}%' for x given in tenths
FormatTenths(tenths) ==
    Str(IntToChars(tenths \div 10) \o <<".">> \o IntToChars(tenths % 10) \o <<"%">>)

\* the guard dropping the decimal of the zero percentage
Percentage_zero_short(count, total_items) ==
    IF total_items > 0
    THEN FormatTenths(RoundHalfEven(count * 1000, total_items))
    ELSE Str(<<"0", "%">>)

\* f'{(count/total_items*100):.1f}%' if total_items > 0 else '0.0%'
Percentage(count, total_items) ==
    IF total_items > 0
    THEN FormatTenths(RoundHalfEven(count * 1000, total_items))
    ELSE Str(<<"0", ".", "0", "%">>)

SummaryRow(metric, count, total_items) ==
    [Metric |-> metric, Count |-> count, Percentage |-> Percentage(count, total_items)]

\* the summary counting an unavailable item as unmatched too
generate_bom_summary_unavailable_as_unmatched(bom_data) ==
    <<[Metric |-> "Total Items", Count |-> Len(bom_data),
       Percentage |-> Str(<<"1", "0", "0", ".", "0", "%">>)],
      SummaryRow("Matched Items", CountWhere(bom_data, "status", "matched"), Len(bom_data)),
      SummaryRow("Unmatched Items",
                 CountWhere(bom_data, "status", "unmatched")
                    + CountWhere(bom_data, "status", "unavailable"), Len(bom_data)),
      SummaryRow("Unavailable Items", CountWhere(bom_data, "status", "unavailable"),
                 Len(bom_data)),
      SummaryRow("Processing Errors", CountWhere(bom_data, "status", "error"), Len(bom_data)),
      SummaryRow("High Confidence Matches",
                 CountWhere(bom_data, "confidence_level", "high"), Len(bom_data)),
      SummaryRow("Medium Confidence Matches",
                 CountWhere(bom_data, "confidence_level", "medium"), Len(bom_data)),
      SummaryRow("Low Confidence Matches",
                 CountWhere(bom_data, "confidence_level", "low"), Len(bom_data))>>

_generate_bom_summary(bom_data) ==
    <<[Metric |-> "Total Items", Count |-> Len(bom_data),
       Percentage |-> Str(<<"1", "0", "0", ".", "0", "%">>)],
      SummaryRow("Matched Items", CountWhere(bom_data, "status", "matched"), Len(bom_data)),
      SummaryRow("Unmatched Items", CountWhere(bom_data, "status", "unmatched"),
                 Len(bom_data)),
      SummaryRow("Unavailable Items", CountWhere(bom_data, "status", "unavailable"),
                 Len(bom_data)),
      SummaryRow("Processing Errors", CountWhere(bom_data, "status", "error"), Len(bom_data)),
      SummaryRow("High Confidence Matches",
                 CountWhere(bom_data, "confidence_level", "high"), Len(bom_data)),
      SummaryRow("Medium Confidence Matches",
                 CountWhere(bom_data, "confidence_level", "medium"), Len(bom_data)),
      SummaryRow("Low Confidence Matches",
                 CountWhere(bom_data, "confidence_level", "low"), Len(bom_data))>>

-----------------------------------------------------------------------------
(* Inputs *)

MaxCatalog == 2     \* rows of the uploaded stock master
MaxItems == 2       \* line items of one process-rfp request
MaxWords == 2       \* words of a drawn text
MaxCandidates == 4  \* rows of a catalog of pipes, all of them candidates

StockRow(code, description, qty) ==
    [product_code |-> code, description |-> description, material |-> <<>>,
     size |-> <<>>, specification |-> <<>>, on_hand_quantity |-> Str(qty)]

\* rows as upload_stock_master stores them: every field a stripped str, ""
\* for an empty cell; codes are not unique
RowP1 == StockRow("P1", <<"6\"", "SCH40", "SMLS", "PIPE", "X52">>, <<"5">>)
RowP2 == StockRow("P2", <<"pipe", "X52">>, <<>>)
RowP1b == StockRow("P1", <<"6\"", "PIPE", "X52">>, <<"1", "0", ".", "5">>)
RowF1 == StockRow("F1", <<"4\"", "150#", "WNRF", "FLANGE", "A105">>, <<"0">>)
RowF2 == StockRow("F2", <<"4\"", "300#", "WNRF", "FLANGE", "A105">>, <<"a", "b", "c">>)
RowF3 == StockRow("F3", <<"4\"", "FLANGE", "A105">>, <<"-", "3">>)

StockRows == {RowP1, RowP2, RowP1b, RowF1, RowF2, RowF3}

SeqsUpTo(S, n) == UNION {[1..m -> S] : m \in 0..n}

Catalogs == SeqsUpTo(StockRows, MaxCatalog)

PipeItem == Str(<<"6\"", "SCH40", "SMLS", "PIPE", "API", "5L", "X52", "PSL2">>)
FlangeItem == Str(<<"4\"", "150#", "WNRF", "FLANGE", "A105">>)
GasketItem == Str(<<"GASKET">>)

LineItems == {PipeItem, FlangeItem, GasketItem}

\* the pools of a whole run: pipe rows, and what a JSON request body can hold
\* in place of a line item
BatchCatalogs == SeqsUpTo({RowP1, RowP2, RowP1b}, MaxCatalog)
RequestItems == {PipeItem, GasketItem, None}

Doc(code, score) ==
    [matched_product_code |-> code, matched_description |-> <<>>,
     match_score |-> score, match_reason |-> <<"reason">>]

Failed(msg) == [raised |-> TRUE, msg |-> msg]
Reply(doc) == [raised |-> FALSE, doc |-> doc]

JudgedCodes == {"", "P1", "p1", "P2", "F1", "F2", "F3", "X1"}

JudgedScores ==
    {Num(0), Num(399), Num(400), Num(599), Num(600), Num(799), Num(800), Num(1000),
     Str(<<"8", "5">>), Str(<<"3", "9", ".", "9">>), Str(<<"-", "5">>),
     Str(<<"n", "a", "n">>), Str(<<"8", "5", "%">>), Str(<<>>), None}

\* outcomes of the chat completion: a failure, a document lacking a required
\* field, or a complete document with any code and score
Responses ==
    {Failed("connection error"),
     Reply([matched_product_code |-> "P1", matched_description |-> <<>>,
            match_reason |-> <<"reason">>])}
    \cup {Reply(Doc(c, sc)) : c \in JudgedCodes, sc \in JudgedScores}

BatchResponses ==
    {Failed("connection error"),
     Reply(Doc("P1", Str(<<"8", "5">>))),
     Reply(Doc("X1", Str(<<"8", "5">>))),
     Reply(Doc("P1", Str(<<"n", "a", "n">>))),
     Reply(Doc("P2", None))}

-----------------------------------------------------------------------------
(* Spec: one run of process_rfp_items, an iteration of its loop per step *)

Init ==
    /\ use_mock \in BOOLEAN
    /\ stock_data \in BatchCatalogs
    /\ rfp_items \in SeqsUpTo(RequestItems, MaxItems)
    /\ i = 0
    /\ results = <<>>
    /\ pc = "loop"
    /\ rfp_item = None
    /\ filtered_stock = <<>>
    /\ ai_result = None
    /\ enhanced = None
    /\ features = None
    /\ result_limit = 20
    /\ summary_data = None
    /\ matcher_calls = <<>>
    /\ catalogs_read = <<>>
    /\ session_id = None
    /\ session_store = None

\* one iteration: the logging line, then the try/except around the item
Iterate ==
    /\ pc = "loop"
    /\ i < Len(rfp_items)
    /\ \E response \in BatchResponses :
          IF Sliceable(rfp_items[i + 1])
          THEN /\ results' = Append(results,
                                    ItemResult(use_mock, stock_data, i + 1,
                                               rfp_items[i + 1], response))
               /\ matcher_calls' =
                     CallsAfter(matcher_calls, i + 1,
                                process_single_rfp_item(use_mock, stock_data,
                                                        rfp_items[i + 1], response))
               /\ catalogs_read' =
                     ReadsAfter(catalogs_read, stock_data,
                                extract_bucket_features(rfp_items[i + 1]))
               /\ stock_data' =
                     StockAfterItem(stock_data,
                                    extract_bucket_features(rfp_items[i + 1]))
               /\ i' = i + 1
               /\ pc' = "loop"
          ELSE /\ pc' = "raised"      \* TypeError leaves process_rfp_items
               /\ UNCHANGED <<results, i, matcher_calls, catalogs_read, stock_data>>
    /\ UNCHANGED <<use_mock, rfp_items, rfp_item, filtered_stock,
                   ai_result, enhanced, features, result_limit, summary_data,
                   session_id, session_store>>

\* return results
Return ==
    /\ pc = "loop"
    /\ i = Len(rfp_items)
    /\ pc' = "done"
    /\ UNCHANGED <<use_mock, stock_data, rfp_items, i, results, rfp_item,
                   filtered_stock, ai_result, enhanced, features, result_limit,
                   summary_data,
                   matcher_calls, catalogs_read, session_id, session_store>>

Next == Iterate \/ Return

Spec == Init /\ [][Next]_vars

-----------------------------------------------------------------------------
(* SingleSpec: one call of process_single_rfp_item on drawn inputs *)

SingleInit ==
    /\ use_mock \in BOOLEAN
    /\ stock_data \in Catalogs
    /\ rfp_item \in LineItems
    /\ ai_result \in (IF use_mock THEN {None} ELSE Responses)   \* the reply to come
    /\ pc = "call"
    /\ rfp_items = <<>>
    /\ i = 0
    /\ results = <<>>
    /\ filtered_stock = <<>>
    /\ enhanced = None
    /\ features = None
    /\ result_limit = 20
    /\ summary_data = None
    /\ matcher_calls = <<>>
    /\ catalogs_read = <<>>
    /\ session_id = None
    /\ session_store = None

ProcessSingle ==
    /\ pc = "call"
    /\ \E run \in {process_single_rfp_item(use_mock, stock_data, rfp_item, ai_result)} :
          /\ filtered_stock' = run.filtered
          /\ ai_result' = run.ai
          /\ enhanced' = IF run.ok THEN run.val ELSE None
          /\ pc' = IF run.ok THEN "returned" ELSE "raised"
    /\ stock_data' = StockAfterItem(stock_data, extract_bucket_features(rfp_item))
    /\ UNCHANGED <<use_mock, rfp_item, rfp_items, i, results,
                   features, result_limit, summary_data,
                   matcher_calls, catalogs_read, session_id, session_store>>

SingleNext == ProcessSingle

SingleSpec == SingleInit /\ [][SingleNext]_vars

-----------------------------------------------------------------------------
(* FilterSpec: one call of filter_stock_by_buckets on drawn inputs *)

RowP3 == StockRow("P3", <<"PIPE", "API", "X42">>, <<"7">>)

FilterCatalogs == SeqsUpTo(StockRows \cup {RowP3}, MaxCatalog)

\* query feature maps: those of the line items
QueryFeatures == {extract_bucket_features(item).val : item \in LineItems}

\* values of max_results, below zero and beyond the catalog's length
Limits == (0 - 1)..(MaxCatalog + 1)

FilterInit ==
    /\ features \in QueryFeatures
    /\ stock_data \in FilterCatalogs
    /\ result_limit \in Limits
    /\ pc = "call"
    /\ filtered_stock = <<>>
    /\ use_mock = TRUE
    /\ rfp_items = <<>>
    /\ i = 0
    /\ results = <<>>
    /\ rfp_item = None
    /\ ai_result = None
    /\ enhanced = None
    /\ summary_data = None
    /\ matcher_calls = <<>>
    /\ catalogs_read = <<>>
    /\ session_id = None
    /\ session_store = None

Filter ==
    /\ pc = "call"
    /\ filtered_stock' = filter_stock_by_buckets(features, stock_data, result_limit)
    /\ stock_data' = StockAfterFilter(stock_data, features)
    /\ pc' = "returned"
    /\ UNCHANGED <<use_mock, rfp_items, i, results, rfp_item, ai_result,
                   enhanced, features, result_limit, summary_data,
                   matcher_calls, catalogs_read, session_id, session_store>>

FilterNext == Filter

FilterSpec == FilterInit /\ [][FilterNext]_vars

-----------------------------------------------------------------------------
(* ExtractSpec: one call of extract_bucket_features on a drawn text *)

\* the line items, every text of up to MaxWords words, and a value that is
\* no str
Texts ==
    LineItems \cup {Str(words) : words \in SeqsUpTo(Vocabulary, MaxWords)} \cup {None}

ExtractInit ==
    /\ rfp_item \in Texts
    /\ features = None
    /\ pc = "call"
    /\ use_mock = TRUE
    /\ stock_data = <<>>
    /\ rfp_items = <<>>
    /\ i = 0
    /\ results = <<>>
    /\ filtered_stock = <<>>
    /\ ai_result = None
    /\ enhanced = None
    /\ result_limit = 20
    /\ summary_data = None
    /\ matcher_calls = <<>>
    /\ catalogs_read = <<>>
    /\ session_id = None
    /\ session_store = None

Extract ==
    /\ pc = "call"
    /\ \E run \in {extract_bucket_features(rfp_item)} :
          /\ features' = IF run.ok THEN run.val ELSE None
          /\ pc' = IF run.ok THEN "returned" ELSE "raised"
    /\ UNCHANGED <<use_mock, stock_data, rfp_items, i, results, rfp_item,
                   filtered_stock, ai_result, enhanced, result_limit, summary_data,
                   matcher_calls, catalogs_read, session_id, session_store>>

ExtractNext == Extract

ExtractSpec == ExtractInit /\ [][ExtractNext]_vars

-----------------------------------------------------------------------------
(* BomSpec: a run of process_rfp_items, then the summary of what it returned *)

GenerateSummary ==
    /\ pc = "done"
    /\ summary_data' = _generate_bom_summary(results)
    /\ pc' = "summarized"
    /\ UNCHANGED <<use_mock, stock_data, rfp_items, i, results, rfp_item,
                   filtered_stock, ai_result, enhanced, features, result_limit,
                   matcher_calls, catalogs_read, session_id, session_store>>

BomNext == Iterate \/ Return \/ GenerateSummary

BomSpec == Init /\ [][BomNext]_vars

-----------------------------------------------------------------------------
(* EnhanceSpec: one call of _enhance_ai_result on drawn inputs *)

RowP1c == StockRow("P1", <<"PIPE", "X52">>, <<"0">>)

\* rows that all pass the filter for the pipe item; three share the code P1
CandidateRows == {RowP1, RowP2, RowP1b, RowP1c, RowP3}

\* filtered candidate lists: what the filter returns for the pipe item
CandidateLists ==
    {filter_stock_by_buckets(extract_bucket_features(PipeItem).val, catalog, 20) :
        catalog \in SeqsUpTo(CandidateRows, MaxCandidates)}

Judgments ==
    {Doc(code, score) :
        code \in {"", "P1", "P2", "X1"},
        score \in {Str(<<"8", "5">>), Str(<<"3", "9", ".", "9">>), None}}

EnhanceInit ==
    /\ filtered_stock \in CandidateLists
    /\ ai_result \in Judgments
    /\ features = extract_bucket_features(PipeItem).val
    /\ enhanced = None
    /\ pc = "call"
    /\ use_mock = FALSE
    /\ stock_data = <<>>
    /\ rfp_items = <<>>
    /\ i = 0
    /\ results = <<>>
    /\ rfp_item = PipeItem
    /\ result_limit = 20
    /\ summary_data = None
    /\ matcher_calls = <<>>
    /\ catalogs_read = <<>>
    /\ session_id = None
    /\ session_store = None

Enhance ==
    /\ pc = "call"
    /\ enhanced' = _enhance_ai_result(ai_result, filtered_stock, features)
    /\ pc' = "returned"
    /\ UNCHANGED <<use_mock, stock_data, rfp_items, i, results, rfp_item, filtered_stock,
                   ai_result, features, result_limit, summary_data,
                   matcher_calls, catalogs_read, session_id, session_store>>

EnhanceNext == Enhance

EnhanceSpec == EnhanceInit /\ [][EnhanceNext]_vars

-----------------------------------------------------------------------------
(* SessionSpec, ConcurrentSpec: the module-level services behind the routes
   /upload-stock-master and /process-rfp, called from several sessions *)

MaxSessions == 2

Sessions == 1..MaxSessions

\* the catalogs a session uploads: standardized_data with at least one record
UploadedCatalogs == {<<RowP1>>, <<RowP2>>}

\* rfp_items of a /process-rfp request; an empty list is answered with 400
RequestBodies == SeqsUpTo({PipeItem}, MaxItems) \ {<<>>}

\* a session cookie without an upload
NoUpload == [stock_master_uploaded |-> FALSE, stock_data |-> <<>>]

\* set_stock_master_uploaded, with the blob save_json_data wrote for the session
Uploaded(catalog) == [stock_master_uploaded |-> TRUE, stock_data |-> catalog]

\* the service objects as app.py constructs them, before any request
ServiceInit ==
    /\ stock_data = <<>>
    /\ session_store = [s \in Sessions |-> NoUpload]
    /\ session_id = 0             \* no request yet
    /\ pc = "idle"
    /\ use_mock = FALSE
    /\ rfp_items = <<>>
    /\ i = 0
    /\ results = <<>>
    /\ rfp_item = None
    /\ filtered_stock = <<>>
    /\ ai_result = None
    /\ enhanced = None
    /\ features = None
    /\ result_limit = 20
    /\ summary_data = None
    /\ matcher_calls = <<>>
    /\ catalogs_read = <<>>

\* _try_load_session_data: the blob of the request's session, if it has one
_try_load_session_data(stock, cookie) ==
    IF cookie.stock_master_uploaded THEN cookie.stock_data ELSE stock

\* self.stock_data after has_stock_data: the session is consulted only when
\* the service's list is empty
has_stock_data(stock, cookie) ==
    IF Len(stock) = 0 THEN _try_load_session_data(stock, cookie) ELSE stock

\* upload_stock_master in a request of session s: the service's list is
\* replaced, the blob and the cookie of the session are written
UploadStockMaster ==
    /\ \E s \in Sessions, catalog \in UploadedCatalogs :
          /\ stock_data' = catalog
          /\ session_store' = [session_store EXCEPT ![s] = Uploaded(catalog)]
    /\ pc' = IF pc = "loop" THEN "loop" ELSE "uploaded"
    /\ UNCHANGED <<use_mock, rfp_items, i, results, rfp_item, filtered_stock,
                   ai_result, enhanced, features, result_limit, summary_data,
                   matcher_calls, catalogs_read, session_id>>

\* process_rfp in a request of session s, up to the call of process_rfp_items;
\* the loop itself is Iterate and Return
ProcessRfp ==
    /\ pc # "loop"
    /\ \E s \in Sessions, body \in RequestBodies :
          /\ session_id' = s
          /\ rfp_items' = body
          /\ stock_data' = has_stock_data(stock_data, session_store[s])
          /\ pc' = IF Len(has_stock_data(stock_data, session_store[s])) > 0
                   THEN "loop" ELSE "rejected"
    /\ i' = 0
    /\ results' = <<>>
    /\ matcher_calls' = <<>>
    /\ catalogs_read' = <<>>
    /\ UNCHANGED <<use_mock, rfp_item, filtered_stock, ai_result, enhanced,
                   features, result_limit, summary_data, session_store>>

\* requests served one after the other: no upload inside a running batch
BetweenRequests == pc # "loop"

SessionNext == (BetweenRequests /\ UploadStockMaster) \/ ProcessRfp \/ Iterate \/ Return

SessionSpec == ServiceInit /\ [][SessionNext]_vars

\* threaded=True: an upload may run while a batch is in its loop
ConcurrentNext == UploadStockMaster \/ ProcessRfp \/ Iterate \/ Return

ConcurrentSpec == ServiceInit /\ [][ConcurrentNext]_vars

-----------------------------------------------------------------------------
(* Claims C1, C2: a run of process_rfp_items (Spec) *)

AllStr(items) == \A n \in 1..Len(items) : items[n].k = "str"

\* C1: on a list of N line items (str, as process_rfp_items declares them)
\* the run never aborts, the n-th result carries line_number n and the n-th
\* input as original_rfp_item, and the returned list has exactly N results,
\* also when process_single_rfp_item raises for every item.
C1_OneResultPerItem ==
    AllStr(rfp_items) =>
        /\ pc # "raised"
        /\ Len(results) = i
        /\ \A n \in 1..Len(results) :
              /\ results[n].line_number = n
              /\ results[n].original_rfp_item = rfp_items[n]
        /\ (pc = "done" => Len(results) = Len(rfp_items))

\* a returned batch of at least two items in which every item raised
C1_Witness ==
    /\ pc = "done"
    /\ Len(rfp_items) >= 2
    /\ Len(results) = Len(rfp_items)
    /\ \A n \in 1..Len(results) :
          /\ results[n].status = "error"
          /\ "error_message" \in DOMAIN results[n]
          /\ results[n].line_number = n

\* C2: whatever the items are, no failure while handling one item leaves
\* process_rfp_items: the run returns, with a result for every item.
C2_NoItemFailureEscapes ==
    /\ pc # "raised"
    /\ (pc = "done" => Len(results) = Len(rfp_items))

-----------------------------------------------------------------------------
(* Claims C3..C10: a call of process_single_rfp_item (SingleSpec) *)

\* the call returned after the matcher gave a judgment
Judged == pc = "returned" /\ ai_result # None

\* float(ai_result.get('match_score', 0)) of the judgment
JudgedScore == PyFloat(DictGet(ai_result, "match_score", Num(0)))

JudgedCode == DictGet(ai_result, "matched_product_code", "")

\* the judgment's code is the code of a filtered candidate
CodeFound ==
    /\ JudgedCode # ""
    /\ \E n \in 1..Len(filtered_stock) : filtered_stock[n].product_code = JudgedCode

\* the first candidate with the judgment's code
FoundEntry ==
    filtered_stock[CHOOSE n \in 1..Len(filtered_stock) :
        /\ filtered_stock[n].product_code = JudgedCode
        /\ \A m \in 1..(n - 1) : filtered_stock[m].product_code # JudgedCode]

\* readings of an on-hand quantity as the catalog stores it
QtyNumeric(q) == q.k = "str" /\ ParseFloat(q.v).ok
QtyAtMostZero(q) == QtyNumeric(q) /\ FLe(ParseFloat(q.v).val, F(0))
QtyPositive(q) == QtyNumeric(q) /\ FLt(F(0), ParseFloat(q.v).val)
QtyEmpty(q) == q.k = "none" \/ (q.k = "str" /\ q.v = <<>>)

\* C3: a coerced score below 40 gives status 'unmatched', whether or not the
\* code is found among the candidates and whatever that candidate's quantity.
C3_LowScoreUnmatched ==
    (Judged /\ JudgedScore.ok /\ FLt(JudgedScore.val, F(400)))
        => enhanced.status = "unmatched"

\* score 39.9 or less for a code that is found, with 5 on hand
C3_Witness ==
    /\ Judged /\ JudgedScore.ok /\ FLt(JudgedScore.val, F(400))
    /\ CodeFound
    /\ QtyPositive(FoundEntry.on_hand_quantity)
    /\ enhanced.status = "unmatched"

C5_UnknownQuantityAvailable ==
    (/\ Judged /\ JudgedScore.ok /\ FGe(JudgedScore.val, F(400))
     /\ CodeFound
     /\ \/ QtyEmpty(FoundEntry.on_hand_quantity)
        \/ ~QtyNumeric(FoundEntry.on_hand_quantity))
        => enhanced.status = "matched"

\* C6: a judgment whose code is empty or the code of no candidate gives a
\* result without matched entry and with status 'unmatched', whatever the
\* judgment's score is.
C6_UnknownCodeUnmatched ==
    (Judged /\ ~CodeFound)
        => /\ enhanced.status = "unmatched"
           /\ enhanced.matched_stock_details = None

\* C7: the confidence tier follows the score alone, with inclusive lower
\* boundaries 80, 60 and 40.
C7_ConfidenceTiers ==
    (Judged /\ JudgedScore.ok) =>
        /\ FGe(JudgedScore.val, F(800)) => enhanced.confidence_level = "high"
        /\ (FGe(JudgedScore.val, F(600)) /\ FLt(JudgedScore.val, F(800)))
              => enhanced.confidence_level = "medium"
        /\ (FGe(JudgedScore.val, F(400)) /\ FLt(JudgedScore.val, F(600)))
              => enhanced.confidence_level = "low"
        /\ FLt(JudgedScore.val, F(400)) => enhanced.confidence_level = "very_low"

\* a score of exactly 60 classified 'medium'
C7_Witness ==
    /\ Judged /\ JudgedScore.ok
    /\ JudgedScore.val = F(600)
    /\ enhanced.confidence_level = "medium"

\* C8: a judgment whose match_score is missing, None or a non-numeric string
\* is classified with score 0 and status 'unmatched', not 'error'.
C8_BadScoreIsZero ==
    (Judged /\ ~JudgedScore.ok)
        => /\ enhanced.match_score = F(0)
           /\ enhanced.status = "unmatched"

\* C9: 'matched' implies a candidate entry, score >= 40 and a positive or
\* unknown quantity; 'unavailable' implies a candidate entry whose quantity is
\* zero or negative.
C9_StatusInvariant ==
    pc = "returned" =>
        /\ enhanced.status = "matched" =>
              /\ \E n \in 1..Len(filtered_stock) :
                    enhanced.matched_stock_details = filtered_stock[n]
              /\ FGe(enhanced.match_score, F(400))
              /\ ~QtyAtMostZero(enhanced.matched_stock_details.on_hand_quantity)
        /\ enhanced.status = "unavailable" =>
              /\ \E n \in 1..Len(filtered_stock) :
                    enhanced.matched_stock_details = filtered_stock[n]
              /\ QtyAtMostZero(enhanced.matched_stock_details.on_hand_quantity)

\* C10 as stated: 'unmatched' implies no candidate passed the filter or a
\* score below 40.
C10_Original ==
    (pc = "returned" /\ enhanced.status = "unmatched")
        => \/ enhanced.filtered_candidates = 0
           \/ FLt(enhanced.match_score, F(400))

\* C10 amended: 'unmatched' implies no candidate passed the filter, or a
\* score below 40, or a judgment whose code is empty or the code of no
\* filtered candidate.
C10_UnmatchedImplies ==
    (pc = "returned" /\ enhanced.status = "unmatched")
        => \/ enhanced.filtered_candidates = 0
           \/ FLt(enhanced.match_score, F(400))
           \/ ~CodeFound

\* 'unmatched' at a score of 40 or more among candidates: the code is unknown
C10_Witness ==
    /\ Judged
    /\ enhanced.status = "unmatched"
    /\ enhanced.filtered_candidates > 0
    /\ FGe(enhanced.match_score, F(400))
    /\ ~CodeFound

\* C11: an exception raised inside _enhance_ai_result (float() rejecting the
\* judgment's score) does not leave it: the call returns a result with status
\* 'error', the exception's message in match_reason, empty product code and
\* description, and match_score and on_hand_quantity 0.
C11_EnhanceCatches ==
    (pc # "call" /\ ai_result # None /\ ~JudgedScore.ok) =>
        /\ pc = "returned"
        /\ enhanced.status = "error"
        /\ \E n \in 1..Len(enhanced.match_reason) :
              enhanced.match_reason[n] = JudgedScore.msg
        /\ enhanced.matched_product_code = ""
        /\ enhanced.matched_description = <<>>
        /\ enhanced.match_score = F(0)
        /\ enhanced.on_hand_quantity = F(0)

\* float(None) raised TypeError inside _enhance_ai_result
C11_Witness ==
    /\ pc = "returned"
    /\ ai_result # None
    /\ ai_result.match_score = None
    /\ enhanced.status = "error"
    /\ enhanced.filtered_candidates > 0

\* C12: match_rfp_item never raises, with the real client and in mock mode,
\* so process_single_rfp_item does not raise on a str line item; a failure of
\* the matcher gives an empty judgment with score '0' and the failure text,
\* and the item's result is a zero-score 'unmatched'.
C12_MatcherNeverRaises ==
    /\ pc # "raised"
    /\ (pc = "returned" /\ ai_result # None
            /\ ai_result.match_reason[1] = "Error in AI matching: ") =>
          /\ ai_result.matched_product_code = ""
          /\ ai_result.matched_description = <<>>
          /\ ai_result.match_score = Str(<<"0">>)
          /\ enhanced.status = "unmatched"
          /\ enhanced.match_score = F(0)

\* no catalog entry has a feature of the line item in any bucket
NoOverlap ==
    \A n \in 1..Len(stock_data) : \A b \in Buckets :
        TextMatches(b, rfp_item.v) \cap TextMatches(b, StockText(stock_data[n]).v) = {}

\* C13: with an empty catalog, or when no catalog entry passes the bucket
\* filter, process_single_rfp_item returns 'unmatched' with the no-candidates
\* reason, score 0 and filtered_candidates 0, without calling the matcher.
C13_NoCandidatesUnmatched ==
    (pc # "call" /\ NoOverlap) =>
        /\ pc = "returned"
        /\ enhanced.status = "unmatched"
        /\ enhanced.match_reason =
              <<"No matching products found in stock master using bucket filtering">>
        /\ enhanced.match_score = F(0)
        /\ enhanced.filtered_candidates = 0
        /\ ai_result = None

\* a pipe item against a catalog of flanges only
C13_Witness ==
    /\ pc = "returned"
    /\ rfp_item = PipeItem
    /\ Len(stock_data) > 0
    /\ NoOverlap
    /\ enhanced.status = "unmatched"
    /\ enhanced.filtered_candidates = 0

-----------------------------------------------------------------------------
(* Claims C14..C16: a call of filter_stock_by_buckets (FilterSpec) *)

\* the feature map of a catalog entry's text
EntryFeatures(entry) == extract_bucket_features(StockText(entry)).val

\* the query and the entry have a token in common in some bucket
SharesToken(query, entry) ==
    \E b \in Buckets :
        /\ b \in DOMAIN query
        /\ b \in DOMAIN EntryFeatures(entry)
        /\ query[b] \cap EntryFeatures(entry)[b] # {}

\* a returned item without the two fields the filter adds
Original(item) ==
    [f \in DOMAIN item \ {"match_score", "matched_buckets"} |-> item[f]]

\* C14: whatever the query feature map, the catalog and max_results, an
\* entry sharing no token with the query in any bucket is not in the output
\* of filter_stock_by_buckets, and every returned entry scores above 0.
C14_NoOverlapExcluded ==
    pc = "returned" =>
        /\ \A n \in 1..Len(stock_data) :
              ~SharesToken(features, stock_data[n]) =>
                  \A m \in 1..Len(filtered_stock) :
                      Original(filtered_stock[m]) # stock_data[n]
        /\ \A m \in 1..Len(filtered_stock) :
              /\ filtered_stock[m].match_score[1] > 0
              /\ filtered_stock[m].match_score[2] > 0

\* a catalog of one entry that overlaps and one that does not, with room for both
C14_Witness ==
    /\ pc = "returned"
    /\ result_limit >= Len(stock_data)
    /\ Len(filtered_stock) = 1
    /\ \E n \in 1..Len(stock_data) : ~SharesToken(features, stock_data[n])

\* the score of the n-th catalog entry against the query
ScoreOf(n) == _calculate_match_score(features, EntryFeatures(stock_data[n]))

\* the catalog entries scored above 0
Positive == {n \in 1..Len(stock_data) : RatLt(<<0, 1>>, ScoreOf(n))}

\* C15: the output is ordered by non-increasing match_score; for
\* max_results >= 0 it has min(max_results, number of positively scored
\* entries) entries, and every positively scored entry scoring above the
\* last returned one is returned.
C15_SortedTopK ==
    pc = "returned" =>
        /\ \A m \in 1..(Len(filtered_stock) - 1) :
              ~RatLt(filtered_stock[m].match_score, filtered_stock[m + 1].match_score)
        /\ result_limit >= 0 =>
              /\ Len(filtered_stock) = Min(result_limit, Cardinality(Positive))
              /\ \A n \in Positive :
                    (/\ filtered_stock # <<>>
                     /\ RatLt(filtered_stock[Len(filtered_stock)].match_score, ScoreOf(n)))
                    => Cardinality({m \in 1..Len(filtered_stock) :
                                       filtered_stock[m].match_score = ScoreOf(n)})
                        = Cardinality({k \in Positive : ScoreOf(k) = ScoreOf(n)})

\* two positively scored entries, the better one second in the catalog, and
\* room for one
C15_Witness ==
    /\ pc = "returned"
    /\ result_limit = 1
    /\ Cardinality(Positive) = 2
    /\ RatLt(ScoreOf(1), ScoreOf(2))
    /\ Len(filtered_stock) = 1
    /\ Original(filtered_stock[1]) = stock_data[2]

\* weight of a bucket as the claim gives it
ClaimWeight(b) == IF b <= 6 THEN 10 ELSE IF b <= 8 THEN 5 ELSE 2

\* weight x |intersection| / max(|query set|, |entry set|), or 0
ClaimTerm(b, query, entry) ==
    IF b \in DOMAIN query /\ b \in DOMAIN entry /\ query[b] \cap entry[b] # {}
    THEN Rat(ClaimWeight(b) * Cardinality(query[b] \cap entry[b]),
             Max(Cardinality(query[b]), Cardinality(entry[b])))
    ELSE <<0, 1>>

RECURSIVE ClaimSum(_, _, _)
ClaimSum(b, query, entry) ==
    IF b = 0 THEN <<0, 1>>
    ELSE RatAdd(ClaimSum(b - 1, query, entry), ClaimTerm(b, query, entry))

\* C16: the bucket score of a returned entry is the sum over the buckets
\* 1..11 present in both feature maps with a non-empty intersection of
\* weight x |intersection| / max(|query set|, |entry set|), with weight 10
\* for buckets 1-6, 5 for 7-8 and 2 for 9-11.
C16_ScoreFormula ==
    pc = "returned" =>
        \A m \in 1..Len(filtered_stock) :
            filtered_stock[m].match_score
                = ClaimSum(11, features, EntryFeatures(Original(filtered_stock[m])))

\* PIPE API X42 against the pipe item: 10 for bucket 2, nothing for bucket 7,
\* 2 x 1/2 for bucket 11
C16_Witness ==
    /\ pc = "returned"
    /\ features = extract_bucket_features(PipeItem).val
    /\ \E m \in 1..Len(filtered_stock) :
          /\ filtered_stock[m].product_code = "P3"
          /\ filtered_stock[m].match_score = <<11, 1>>

-----------------------------------------------------------------------------
(* Claims C17, C18: a call of extract_bucket_features (ExtractSpec) *)

\* C17: the text 6" SCH40 SMLS PIPE API 5L X52 PSL2 yields bucket 2 = {PIPE},
\* bucket 4 = {SMLS}, bucket 7 = {X52}, bucket 8 = {SCH40}, bucket 9 = {6}
\* and bucket 11 = {API, PSL2}.
C17_PipeExample ==
    (pc = "returned" /\ rfp_item = PipeItem) =>
        features = (2 :> {"PIPE"} @@ 4 :> {"SMLS"} @@ 7 :> {"X52"} @@ 8 :> {"SCH40"}
                    @@ 9 :> {"6"} @@ 11 :> {"API", "PSL2"})

\* C18: in a returned feature map every key is a bucket id in 1..11 with a
\* non-empty collection of non-empty tokens, and a bucket is in the map
\* exactly when one of its patterns matches in the text.
C18_NoEmptyBuckets ==
    pc = "returned" =>
        /\ DOMAIN features \subseteq 1..11
        /\ \A b \in DOMAIN features :
              /\ features[b] # {}
              /\ \A token \in features[b] : token # ""
        /\ \A b \in 1..11 :
              b \in DOMAIN features <=> TextMatches(b, rfp_item.v) # {}

\* a text with the same token twice, and ten buckets without a match
C18_Witness ==
    /\ pc = "returned"
    /\ rfp_item = Str(<<"PIPE", "pipe">>)
    /\ DOMAIN features = {2}
    /\ features[2] = {"PIPE"}

-----------------------------------------------------------------------------
(* Claims C19, C20: the summary of a returned result list (BomSpec) *)

\* the number a Percentage string shows, in tenths of a percent
PercentTenths(percentage) ==
    ParseFloat(SubSeq(percentage.v, 1, Len(percentage.v) - 1)).val.t

\* sums over rows 2..5 of the summary: matched, unmatched, unavailable, errors
StatusCounts ==
    summary_data[2].Count + summary_data[3].Count
        + summary_data[4].Count + summary_data[5].Count

StatusTenths ==
    PercentTenths(summary_data[2].Percentage) + PercentTenths(summary_data[3].Percentage)
        + PercentTenths(summary_data[4].Percentage)
        + PercentTenths(summary_data[5].Percentage)

\* C19: for a returned list of N > 0 results every status is one of
\* 'matched', 'unmatched', 'unavailable', 'error'; the four status counts of
\* the summary add up to Total Items, and the four status percentages add up
\* to 100%, within the rounding of four values to one decimal.
C19_SummaryAddsUp ==
    (pc = "summarized" /\ Len(results) > 0) =>
        /\ \A n \in 1..Len(results) :
              results[n].status \in {"matched", "unmatched", "unavailable", "error"}
        /\ summary_data[1].Count = Len(results)
        /\ StatusCounts = summary_data[1].Count
        /\ StatusTenths >= 1000 - 2
        /\ StatusTenths <= 1000 + 2

\* a summary of two results, one matched and one error
C19_Witness ==
    /\ pc = "summarized"
    /\ Len(results) = 2
    /\ summary_data[2].Count = 1
    /\ summary_data[2].Percentage = Str(<<"5", "0", ".", "0", "%">>)
    /\ summary_data[5].Count = 1
    /\ summary_data[5].Percentage = Str(<<"5", "0", ".", "0", "%">>)

\* C20 as stated: for an empty result list the summary is produced and every
\* Percentage of its rows is '0.0%'.
C20_Original ==
    (pc = "summarized" /\ results = <<>>) =>
        \A r \in 1..Len(summary_data) :
            summary_data[r].Percentage = Str(<<"0", ".", "0", "%">>)

\* C20 amended: for an empty result list the summary is produced, the
\* Percentage of every row but 'Total Items' is '0.0%', and that of
\* 'Total Items' is '100.0%'.
C20_EmptySummary ==
    (pc = "summarized" /\ results = <<>>) =>
        /\ Len(summary_data) = 8
        /\ \A r \in 2..8 : summary_data[r].Percentage = Str(<<"0", ".", "0", "%">>)
        /\ summary_data[1].Metric = "Total Items"
        /\ summary_data[1].Percentage = Str(<<"1", "0", "0", ".", "0", "%">>)

\* the summary of an empty list
C20_Witness ==
    /\ pc = "summarized"
    /\ results = <<>>
    /\ summary_data[1].Count = 0
    /\ summary_data[2].Percentage = Str(<<"0", ".", "0", "%">>)

-----------------------------------------------------------------------------
(* Claims C21, C27, C30: a call of _enhance_ai_result (EnhanceSpec) *)

\* what an alternative shows of a candidate: code, description, bucket score
AltView(item) ==
    [product_code |-> item.product_code,
     description  |-> item.description,
     bucket_score |-> item.match_score]

\* C21: in a non-error result alternative_matches has at most 3 entries, none
\* with the judgment's product code; each shows the code, description and
\* bucket score of a filtered candidate, in the order of the filtered list.
C21_AlternativesFromCandidates ==
    (pc = "returned" /\ enhanced.status # "error") =>
        /\ Len(enhanced.alternative_matches) <= 3
        /\ \A k \in 1..Len(enhanced.alternative_matches) :
              enhanced.alternative_matches[k].product_code # JudgedCode
        /\ \E f \in [1..Len(enhanced.alternative_matches) -> 1..Len(filtered_stock)] :
              /\ \A k \in 1..(Len(enhanced.alternative_matches) - 1) : f[k] < f[k + 1]
              /\ \A k \in 1..Len(enhanced.alternative_matches) :
                    enhanced.alternative_matches[k] = AltView(filtered_stock[f[k]])

\* four candidates, the judgment's code on the second: two alternatives
C21_Witness ==
    /\ pc = "returned"
    /\ enhanced.status # "error"
    /\ Len(filtered_stock) = 4
    /\ filtered_stock[2].product_code = JudgedCode
    /\ Len(enhanced.alternative_matches) = 2
    /\ enhanced.alternative_matches[2] = AltView(filtered_stock[3])

OtherCode(item) == item.product_code # JudgedCode

\* the candidates whose code differs from the judgment's, in rank order
Others == SelectSeq(filtered_stock, OtherCode)

\* C27: with at least three candidates whose code differs from the judgment's,
\* alternative_matches is exactly the three highest-ranked of them, also when
\* the matched entry is ranked among the top three.
C27_ThreeAlternatives ==
    (pc = "returned" /\ enhanced.status # "error" /\ Len(Others) >= 3) =>
        enhanced.alternative_matches
            = <<AltView(Others[1]), AltView(Others[2]), AltView(Others[3])>>

\* several candidates have the judgment's code
SharedCode ==
    /\ JudgedCode # ""
    /\ Cardinality({n \in 1..Len(filtered_stock) :
                       filtered_stock[n].product_code = JudgedCode}) >= 2

\* C30: when several candidates share the judgment's code, the matched entry
\* is the highest-ranked of them, its on-hand quantity alone decides between
\* 'matched' and 'unavailable', and no candidate with that code is among the
\* alternatives.
C30_SharedCodeFirstWins ==
    (pc = "returned" /\ enhanced.status # "error" /\ SharedCode) =>
        /\ enhanced.matched_stock_details = FoundEntry
        /\ enhanced.status \in {"matched", "unavailable"} =>
              (enhanced.status = "unavailable"
                  <=> \/ QtyEmpty(FoundEntry.on_hand_quantity)
                      \/ QtyAtMostZero(FoundEntry.on_hand_quantity))
        /\ \A k \in 1..Len(enhanced.alternative_matches) :
              enhanced.alternative_matches[k].product_code # JudgedCode

\* the first candidate with the code has 5 on hand, a later one 0: 'matched'
C30_Witness ==
    /\ pc = "returned"
    /\ SharedCode
    /\ FoundEntry.on_hand_quantity = Str(<<"5">>)
    /\ \E n \in 1..Len(filtered_stock) :
          /\ filtered_stock[n].product_code = JudgedCode
          /\ filtered_stock[n].on_hand_quantity = Str(<<"0">>)
    /\ enhanced.status = "matched"

-----------------------------------------------------------------------------
(* Claims C28, C29: results of process_single_rfp_item (SingleSpec) *)

\* C28: a non-empty matched_product_code of a result is the product code of
\* one of the filtered candidates handed to the matcher.
C28_ReportedCodeIsCandidate ==
    (pc = "returned" /\ enhanced.matched_product_code # "") =>
        \E n \in 1..Len(filtered_stock) :
            filtered_stock[n].product_code = enhanced.matched_product_code

\* C29: status 'matched' or 'unavailable' implies confidence_level 'high',
\* 'medium' or 'low', and confidence_level 'very_low' implies status
\* 'unmatched'.
C29_StatusAgreesWithTier ==
    (pc = "returned" /\ "confidence_level" \in DOMAIN enhanced) =>
        /\ enhanced.status \in {"matched", "unavailable"}
              => enhanced.confidence_level \in {"high", "medium", "low"}
        /\ enhanced.confidence_level = "very_low" => enhanced.status = "unmatched"

-----------------------------------------------------------------------------
(* Claims C22, C23: the batch loop, the catalog and the matcher (Spec) *)

\* C22: no step of a batch run changes the catalog: not the order of its
\* entries, not a field of an entry, and no match_score or matched_buckets
\* is added to an entry; the scores live on the copies in the candidate list
C22_CatalogUntouched == [][stock_data' = stock_data]_vars

\* a finished run whose first line item found a scored match in a catalog that
\* has no scored entry
C22_Witness ==
    /\ pc = "done"
    /\ Len(results) >= 1
    /\ DictGet(results[1], "filtered_candidates", 0) >= 1
    /\ "matched_stock_details" \in DOMAIN results[1]
    /\ stock_data # <<>>
    /\ \A n \in 1..Len(stock_data) : "match_score" \notin DOMAIN stock_data[n]

\* C23: the matcher is invoked at most once per line item and in line order,
\* only for items already handled, never for an item with no candidates, and
\* once for every item that has candidates
C23_MatcherCalledOnce ==
    /\ \A k \in 1..Len(matcher_calls) : matcher_calls[k] \in 1..Len(results)
    /\ \A k \in 1..(Len(matcher_calls) - 1) : matcher_calls[k] < matcher_calls[k + 1]
    /\ \A n \in 1..Len(results) :
          /\ DictGet(results[n], "filtered_candidates", 1) = 0
                => \A k \in 1..Len(matcher_calls) : matcher_calls[k] # n
          /\ DictGet(results[n], "filtered_candidates", 0) >= 1
                => \E k \in 1..Len(matcher_calls) : matcher_calls[k] = n

\* a finished run of two items: the first had no candidates and no call, the
\* second was judged once, the matcher raised, and the error was recorded
C23_Witness ==
    /\ pc = "done"
    /\ Len(results) = 2
    /\ DictGet(results[1], "filtered_candidates", 1) = 0
    /\ results[2].status = "error"
    /\ matcher_calls = <<2>>

-----------------------------------------------------------------------------
(* Claim C26: ties in filter_stock_by_buckets (FilterSpec) *)

\* the ways to trace the returned items back to catalog positions: each item
\* is the copy of a positively scored entry, no entry is used twice
Origins ==
    {f \in [1..Len(filtered_stock) -> Positive] :
        /\ \A m \in 1..Len(filtered_stock) :
              /\ Original(filtered_stock[m]) = stock_data[f[m]]
              /\ filtered_stock[m].match_score = ScoreOf(f[m])
        /\ \A m, k \in 1..Len(filtered_stock) : m # k => f[m] # f[k]}

\* C26: for max_results >= 0 the returned items are copies of catalog entries
\* such that items of equal match_score stand in catalog order, and an entry
\* left out by the truncation comes later in the catalog than every returned
\* entry of the same score
C26_StableTies ==
    (pc = "returned" /\ result_limit >= 0) =>
        \E f \in Origins :
            /\ \A m, k \in 1..Len(filtered_stock) :
                  (m < k /\ ScoreOf(f[m]) = ScoreOf(f[k])) => f[m] < f[k]
            /\ \A n \in Positive :
                  (\A m \in 1..Len(filtered_stock) : f[m] # n) =>
                      \A m \in 1..Len(filtered_stock) :
                          ScoreOf(f[m]) = ScoreOf(n) => f[m] < n

\* two different entries of equal positive score and max_results = 1: the
\* first in the catalog is returned, the second is dropped
C26_Witness ==
    /\ pc = "returned"
    /\ result_limit = 1
    /\ Len(stock_data) = 2
    /\ stock_data[1] # stock_data[2]
    /\ 1 \in Positive
    /\ ScoreOf(1) = ScoreOf(2)
    /\ Len(filtered_stock) = 1
    /\ Original(filtered_stock[1]) = stock_data[1]

-----------------------------------------------------------------------------
(* Claims C24, C25: the catalog behind concurrent requests and sessions *)

\* C24: every item of one process_rfp_items run is filtered against the same
\* catalog contents, also when an upload runs in another request thread
C24_OneCatalogPerRun ==
    \A k, l \in 1..Len(catalogs_read) : catalogs_read[k] = catalogs_read[l]

\* C25: a /process-rfp request of a session is accepted only if that session
\* has uploaded a catalog, and each of its items is matched against the
\* catalog that session uploaded last, whatever other sessions uploaded
C25_SessionIsolation ==
    pc \in {"loop", "done"} =>
        /\ session_store[session_id].stock_master_uploaded
        /\ \A k \in 1..Len(catalogs_read) :
              catalogs_read[k] = session_store[session_id].stock_data


=============================================================================
